---- MODULE Spec2Model ----
(***************************************************************************)
(* Model of yangguo/excel_extraction: the detail-block scanners of         *)
(* extract_data.py and extract_conclusion.py, the imputation pass          *)
(* post_process_data, the per-document pipelines process_excel_file and    *)
(* the reconciliation analyze_and_save_conclusion.                         *)
(*                                                                         *)
(* Row and column indices are those of the pandas DataFrame (0-based).     *)
(***************************************************************************)
EXTENDS Integers, Sequences, FiniteSets, TLC

VARIABLES
    sheet_name,     \* scan: the sheet identifier handed to process_sheet
    df,             \* scan: the sheet's grid
    dscan,          \* scan: extract_data.process_sheet's locals and position
    cscan,          \* scan: extract_conclusion.process_sheet's locals and position
    records_in,     \* fill: the list handed to post_process_data, as it was
    records,        \* fill: the list all_data, filled in place
    fill_pc,        \* fill: "extracted" before post_process_data, "processed" after
    directory,      \* doc: the documents of the working directory
    mode,           \* doc: which program's main is running ("data", "conclusion")
    input_file,     \* doc: the document process_excel_file was called with
    doc_pc,         \* doc: "idle" between documents, "sheets" inside the sheet loop
    sheet_idx,      \* doc: position of the sheet loop in sheet_names[1:]
    all_data,       \* doc: extract_data.process_excel_file's accumulator
    first_sheet_data,   \* doc: extract_conclusion's reference rows
    conclusion_data,    \* doc: extract_conclusion.process_excel_file's accumulator
    output_file     \* doc: the output name computed for input_file

scanVars == <<sheet_name, df, dscan, cscan>>
fillVars == <<records_in, records, fill_pc>>
docVars == <<directory, mode, input_file, doc_pc, sheet_idx, all_data,
             first_sheet_data, conclusion_data, output_file>>

vars == <<scanVars, fillVars, docVars>>

(***************************************************************************)
(* Bounds of the model.                                                    *)
(***************************************************************************)
\* rows a grid may hold from its template's detail start row on
MaxTail == 3
\* largest integer marker written in a grid
MaxNum == 2
\* longest record list handed to post_process_data
MaxRecs == 4
\* most detail sheets (sheets after the first) a document holds
MaxSheets == 2
\* most rows a reference sheet lists from row 11 on
MaxRef == 3

(***************************************************************************)
(* Cell values.  A cell is absent (NaN), a Python int, a Python float      *)
(* (n counts halves: PyFloat(3) is 1.5, PyFloat(4) is 2.0) or a str.       *)
(***************************************************************************)
NaN == [t |-> "nan", s |-> "", n |-> 0]
PyInt(k) == [t |-> "int", s |-> "", n |-> k]
PyFloat(h) == [t |-> "float", s |-> "", n |-> h]
PyStr(x) == [t |-> "str", s |-> x, n |-> 0]

\* pd.isna / pd.notna on a scalar
isna(v) == v.t = "nan"
notna(v) == ~isna(v)

\* str(int)
DecStr(k) ==
    CASE k = 0 -> "0" [] k = 1 -> "1" [] k = 2 -> "2" [] k = 3 -> "3"
      [] k = 4 -> "4" [] k = 5 -> "5" [] k = 6 -> "6" [] k = 7 -> "7"
      [] k = 8 -> "8" [] k = 9 -> "9" [] OTHER -> "many"

\* str(x) of a cell value: a str is itself, an int prints its digits, a
\* float always prints a fractional part
str(v) ==
    CASE v.t = "str" -> v.s
      [] v.t = "int" -> DecStr(v.n)
      [] v.t = "float" -> DecStr(v.n \div 2) \o (IF v.n % 2 = 0 THEN ".0" ELSE ".5")
      [] OTHER -> "nan"

\* the idiom  str(x) if pd.notna(x) else ''  (x is None when the header row
\* is outside the grid, and pd.notna(None) is False)
StrOrEmpty(v) == IF notna(v) THEN str(v) ELSE ""

\* int(x) of an int or float cell
IntOf(v) == IF v.t = "float" THEN v.n \div 2 ELSE v.n

\* a marker test without the integrality test  b == int(b)
IsNumericMarkerAnyNumber(v) == ~isna(v) /\ v.t \in {"int", "float"}

\* not pd.isna(b) and isinstance(b, (int, float)) and b == int(b)
IsNumericMarker(v) ==
    /\ ~isna(v)
    /\ v.t \in {"int", "float"}
    /\ (v.t = "float" => v.n % 2 = 0)

(***************************************************************************)
(* Sheet identifiers are sequences of characters.                          *)
(***************************************************************************)
PE6 == <<"P", "E", "-", "6">>
PE3d == <<"P", "E", "-", "3", "d">>
PE8 == <<"P", "E", "-", "8">>

\* sheet_name.replace(" ", "")
StripSpaces(name) == SelectSeq(name, LAMBDA ch : ch # " ")

SheetNames ==
    { PE6, PE3d, PE8,
      <<"P", "E", "-", "1">>,
      <<"P", "E", " ", "-", "6">>,
      <<"p", "e", "-", "6">> }

(***************************************************************************)
(* Grids.  A grid has nrows rows and ncols columns.  Rows below base are   *)
(* the sheet's fixed header block; rows from base on are the rows listed   *)
(* in tail, each with its marker cell b (column 1) and its cell d          *)
(* (column 3).                                                             *)
(***************************************************************************)
Cell(g, r, c) ==
    IF r < g.base
    THEN IF c = 3 THEN g.hdrD ELSE PyStr("Objective")
    ELSE LET row == g.tail[r - g.base + 1] IN
         CASE c = 1 -> row.b
           [] c = 2 -> PyStr("Step")
           [] c = 3 -> row.d
           [] OTHER -> IF row.d.t = "str" THEN PyStr("more") ELSE NaN

\* df.iloc[r, c] raises IndexError outside the grid
InGrid(g, r, c) == r >= 0 /\ r < g.nrows /\ c >= 0 /\ c < g.ncols

RowKinds ==
    { [b |-> PyInt(k), d |-> PyStr("evidence")] : k \in 1..MaxNum }
      \cup { [b |-> PyFloat(4), d |-> NaN],
             [b |-> PyFloat(3), d |-> PyInt(1)],
             [b |-> NaN, d |-> NaN],
             [b |-> NaN, d |-> PyStr("Ineffective")],
             [b |-> PyStr("Conclusion"), d |-> PyStr("Effective")] }

Tails == UNION { [1..n -> RowKinds] : n \in 0..MaxTail }

\* the detail start row of the template a sheet was drawn up with
TemplateBase(name) == IF StripSpaces(name) = PE6 THEN 16 ELSE 13

HdrCells == { NaN, PyStr("Effective") }
NCols == { 3, 4, 5 }
ShortLens == { 0, 5, 7, 10 }

GridsFor(name) ==
    { [nrows |-> TemplateBase(name) + Len(tl), ncols |-> nc,
       base |-> TemplateBase(name), hdrD |-> h, tail |-> tl] :
         tl \in Tails, nc \in NCols, h \in HdrCells }
      \cup
    { [nrows |-> n, ncols |-> nc, base |-> TemplateBase(name),
       hdrD |-> h, tail |-> << >>] :
         n \in ShortLens, nc \in NCols, h \in HdrCells }

(***************************************************************************)
(* extract_data.py: combine_row_values                                     *)
(***************************************************************************)
RECURSIVE CombineFrom(_, _, _, _)
CombineFrom(g, row, col, combined_value) ==
    IF col < g.ncols /\ ~isna(Cell(g, row, col))
    THEN CombineFrom(g, row, col + 1,
             (IF combined_value # "" THEN combined_value \o "\n" ELSE "")
                 \o str(Cell(g, row, col)))
    ELSE combined_value

combine_row_values(g, row, start_col) == CombineFrom(g, row, start_col, "")

(***************************************************************************)
(* extract_data.py: process_sheet                                          *)
(***************************************************************************)
\* the if / elif / else on the stripped sheet name: rows of b6/d6 and of
\* b8/d8, and start_row
DataLayout(name) ==
    IF StripSpaces(name) = PE6
    THEN [hrow1 |-> 7, hrow2 |-> 9, start_row |-> 16]
    ELSE IF StripSpaces(name) \in { PE3d, PE8 }
    THEN [hrow1 |-> 5, hrow2 |-> 7, start_row |-> 13]
    ELSE [hrow1 |-> 4, hrow2 |-> 6, start_row |-> 13]

\* df.iloc[r, c] if len(df) > r else None
HeaderCell(g, r, c) == IF g.nrows > r THEN Cell(g, r, c) ELSE NaN

\* the header reads of row r (columns 1 and 3) raise IndexError when the
\* guarded row exists and the column does not
HeaderRaises(g, r) == g.nrows > r /\ (~InGrid(g, r, 1) \/ ~InGrid(g, r, 3))

DataIdle == [pc |-> "start", current_row |-> 0, start_row |-> 0,
             header_data |-> << >>, detail_rows |-> << >>, stop |-> "none"]

\* lines 75-113: the header record and the first value of current_row
DataBegin(g, name) ==
    LET lay == DataLayout(name) IN
    IF HeaderRaises(g, lay.hrow1) \/ HeaderRaises(g, lay.hrow2)
    THEN [DataIdle EXCEPT !.pc = "raised"]
    ELSE [pc |-> "scan",
          current_row |-> lay.start_row,
          start_row |-> lay.start_row,
          header_data |-> << [Sheet |-> StripSpaces(name), Type |-> "Header",
                Number |-> 0,
                Description |-> StrOrEmpty(HeaderCell(g, lay.hrow1, 1)),
                Details |-> StrOrEmpty(HeaderCell(g, lay.hrow1, 3)),
                Control |-> StrOrEmpty(HeaderCell(g, lay.hrow2, 1)),
                Conclusion |-> StrOrEmpty(HeaderCell(g, lay.hrow2, 3))] >>,
          detail_rows |-> << >>,
          stop |-> "none"]

\* the record appended for a numeric marker row (lines 120-133)
DetailRow(g, name, row) ==
    [Sheet |-> name, Type |-> "Detail",
     Number |-> IntOf(Cell(g, row, 1)),
     Description |-> StrOrEmpty(Cell(g, row, 2)),
     Details |-> combine_row_values(g, row, 3),
     Control |-> "", Conclusion |-> ""]

\* a lookahead that tests presence only, without the type and integrality test
NextIsNumericPresenceOnly(g, row) ==
    row + 1 < g.nrows /\ ~isna(Cell(g, row + 1, 1))

\* the lookahead of lines 137-143
NextIsNumeric(g, row) ==
    row + 1 < g.nrows /\ IsNumericMarker(Cell(g, row + 1, 1))

\* an attachment that writes the terminal values onto every detail row
AttachTerminalAll(detail_rows, b_value, d_value) ==
    [i \in 1..Len(detail_rows) |->
        [detail_rows[i] EXCEPT !.Control = StrOrEmpty(b_value),
                               !.Conclusion = StrOrEmpty(d_value)]]

\* lines 147-152: control and conclusion onto the last detail row
AttachTerminal(detail_rows, b_value, d_value) ==
    IF detail_rows # << >>
    THEN [detail_rows EXCEPT ![Len(detail_rows)] =
             [@ EXCEPT !.Control = StrOrEmpty(b_value),
                       !.Conclusion = StrOrEmpty(d_value)]]
    ELSE detail_rows

\* one pass of the while loop of lines 114-153, or its exit
DataIter(st, g, name) ==
    LET r == st.current_row IN
    IF ~(r < g.nrows)
    THEN [st EXCEPT !.pc = "done", !.stop = "end"]
    ELSE IF ~InGrid(g, r, 1) THEN [st EXCEPT !.pc = "raised"]
    ELSE IF IsNumericMarker(Cell(g, r, 1))
    THEN IF ~InGrid(g, r, 2) THEN [st EXCEPT !.pc = "raised"]
         ELSE [st EXCEPT !.detail_rows = Append(@, DetailRow(g, name, r)),
                         !.current_row = r + 1]
    ELSE IF NextIsNumeric(g, r)
    THEN [st EXCEPT !.current_row = r + 1]
    ELSE IF ~InGrid(g, r, 3) THEN [st EXCEPT !.pc = "raised"]
    ELSE [st EXCEPT !.pc = "done", !.stop = "break",
                    !.detail_rows =
                        AttachTerminal(@, Cell(g, r, 1), Cell(g, r, 3))]

(***************************************************************************)
(* extract_conclusion.py: process_sheet.  The sheet name is compared as    *)
(* given; the marker test and the lookahead are the same expressions as    *)
(* in extract_data.py.                                                     *)
(***************************************************************************)
\* a layout selection without the PE-6 branch
ConclLayoutNoPE6(name) ==
    IF name \in { PE3d, PE8 }
    THEN [d8row |-> 7, start_row |-> 13]
    ELSE [d8row |-> 6, start_row |-> 13]

ConclLayout(name) ==
    IF name = PE6
    THEN [d8row |-> 9, start_row |-> 16]
    ELSE IF name \in { PE3d, PE8 }
    THEN [d8row |-> 7, start_row |-> 13]
    ELSE [d8row |-> 6, start_row |-> 13]

ConclIdle == [pc |-> "start", current_row |-> 0, start_row |-> 0,
              design_value |-> "", operation_value |-> "", stop |-> "none"]

\* lines 75-91
ConclBegin(g, name) ==
    LET lay == ConclLayout(name) IN
    IF g.nrows > lay.d8row /\ ~InGrid(g, lay.d8row, 3)
    THEN [ConclIdle EXCEPT !.pc = "raised"]
    ELSE [pc |-> "scan",
          current_row |-> lay.start_row,
          start_row |-> lay.start_row,
          design_value |-> StrOrEmpty(HeaderCell(g, lay.d8row, 3)),
          operation_value |-> "",
          stop |-> "none"]

\* one pass of the while loop of lines 93-114, or its exit
ConclIter(st, g) ==
    LET r == st.current_row IN
    IF ~(r < g.nrows)
    THEN [st EXCEPT !.pc = "done", !.stop = "end"]
    ELSE IF ~InGrid(g, r, 1) THEN [st EXCEPT !.pc = "raised"]
    ELSE IF IsNumericMarker(Cell(g, r, 1))
    THEN [st EXCEPT !.current_row = r + 1]
    ELSE IF NextIsNumeric(g, r)
    THEN [st EXCEPT !.current_row = r + 1]
    ELSE IF ~InGrid(g, r, 3) THEN [st EXCEPT !.pc = "raised"]
    ELSE [st EXCEPT !.pc = "done", !.stop = "break",
                    !.operation_value = StrOrEmpty(Cell(g, r, 3))]

\* extract_conclusion.process_excel_file lines 170-186: the blank rows
\* appended after a sheet's record
PaddingRows(name) ==
    IF name \in { PE3d, PE8 } THEN 1
    ELSE IF name = PE6 THEN 3
    ELSE 0

\* the record process_sheet returns (lines 118-123)
ConclRecord(st, name) ==
    [Sheet |-> name, Type |-> "Detail",
     Design |-> st.design_value, Operation |-> st.operation_value]

(***************************************************************************)
(* extract_data.py: post_process_data                                      *)
(***************************************************************************)
\* lines 214-216, from list index i (1-based) to the end, in place
RECURSIVE FillDetailsFrom(_, _)
FillDetailsFrom(data, i) ==
    IF i > Len(data) THEN data
    ELSE FillDetailsFrom(
             IF data[i].Details = "" /\ i > 1
             THEN [data EXCEPT ![i].Details = data[i - 1].Details]
             ELSE data,
             i + 1)

\* a forward fill that copies from the list as it was before the pass
ForwardFillDetailsNoChain(data) ==
    [i \in 1..Len(data) |->
        IF data[i].Details = "" /\ i > 1
        THEN [data[i] EXCEPT !.Details = data[i - 1].Details]
        ELSE data[i]]

\* the loop of lines 214-216
ForwardFillDetails(data) == FillDetailsFrom(data, 1)

\* lines 219-223: range(len(data)-1, 0, -1) visits the list indices
\* len-1 .. 1, which are the 1-based positions Len .. 2
RECURSIVE FillDownFrom(_, _)
FillDownFrom(data, i) ==
    IF i < 2 THEN data
    ELSE LET c == IF data[i].Control = "" /\ i < Len(data)
                  THEN [data EXCEPT ![i].Control = data[i + 1].Control]
                  ELSE data
             d == IF c[i].Conclusion = "" /\ i < Len(c)
                  THEN [c EXCEPT ![i].Conclusion = c[i + 1].Conclusion]
                  ELSE c
         IN  FillDownFrom(d, i - 1)

\* the loop of lines 219-223
BackwardFill(data) == FillDownFrom(data, Len(data))

\* lines 210-225
post_process_data(data) ==
    IF data = << >> THEN << >>
    ELSE BackwardFill(ForwardFillDetails(data))

(***************************************************************************)
(* The values the variables of a part have in the specifications that do   *)
(* not run that part.                                                      *)
(***************************************************************************)
FillOff == records_in = << >> /\ records = << >> /\ fill_pc = "off"

ScanOff == /\ sheet_name = << >>
           /\ df = [nrows |-> 0, ncols |-> 0, base |-> 0, hdrD |-> NaN, tail |-> << >>]
           /\ dscan = [DataIdle EXCEPT !.pc = "off"]
           /\ cscan = [ConclIdle EXCEPT !.pc = "off"]

(***************************************************************************)
(* process_sheet as a whole: the header, then the loop run to its end.     *)
(***************************************************************************)
RECURSIVE RunData(_, _, _)
RunData(st, g, name) ==
    IF st.pc = "scan" THEN RunData(DataIter(st, g, name), g, name) ELSE st

\* extract_data.process_sheet(df, sheet_name)
data_process_sheet(g, name) == RunData(DataBegin(g, name), g, StripSpaces(name))

RECURSIVE RunConcl(_, _)
RunConcl(st, g) ==
    IF st.pc = "scan" THEN RunConcl(ConclIter(st, g), g) ELSE st

\* extract_conclusion.process_sheet(df, sheet_name)
concl_process_sheet(g, name) == RunConcl(ConclBegin(g, name), g)

(***************************************************************************)
(* Document names are sequences of tokens; ".xlsx" is one token.           *)
(***************************************************************************)
\* name.replace(".xlsx", suffix + ".xlsx")
RECURSIVE ReplaceXlsx(_, _)
ReplaceXlsx(name, suffix) ==
    IF name = << >> THEN << >>
    ELSE (IF Head(name) = ".xlsx" THEN <<suffix, ".xlsx">> ELSE <<Head(name)>>)
             \o ReplaceXlsx(Tail(name), suffix)

\* (suffix + ".xlsx") in name
ContainsSuffix(name, suffix) ==
    \E i \in 1..(Len(name) - 1) : name[i] = suffix /\ name[i + 1] = ".xlsx"

(***************************************************************************)
(* extract_conclusion.py: extract_first_sheet_data.  A reference sheet     *)
(* lists its rows from row 11 on; rows it does not list are blank.         *)
(***************************************************************************)
BlankRefRow == [no |-> NaN, hd |-> NaN, ho |-> NaN, guard |-> NaN]

RefRow(ref, r) ==
    IF r >= 11 /\ r - 10 <= Len(ref.rows) THEN ref.rows[r - 10] ELSE BlankRefRow

RefCell(ref, r, c) ==
    LET row == RefRow(ref, r) IN
    CASE c = 3 -> row.no
      [] c = 4 -> IF isna(row.no) THEN NaN ELSE PyStr("Access review")
      [] c = 7 -> row.hd
      [] c = 8 -> row.ho
      [] c = 9 -> row.guard
      [] OTHER -> NaN

\* the default of the parameter max_row
DefaultMaxRow == 47

Min(a, b) == IF a < b THEN a ELSE b

\* lines 53-58: HOperation is str(column 8) when column 9 is present
FirstSheetRow(ref, r) ==
    [No |-> StrOrEmpty(RefCell(ref, r, 3)),
     Description |-> StrOrEmpty(RefCell(ref, r, 4)),
     HDesign |-> StrOrEmpty(RefCell(ref, r, 7)),
     HOperation |-> IF notna(RefCell(ref, r, 9)) THEN str(RefCell(ref, r, 8)) ELSE ""]

\* df.iloc[row, 9] raises IndexError on a sheet of fewer than 10 columns
FirstSheetRaises(ref) == ~(ref.nrows < 12) /\ ref.ncols < 10

\* lines 44-61, when no read raises
extract_first_sheet_data(ref) ==
    IF ref.nrows < 12 THEN << >>
    ELSE LET max_row == Min(DefaultMaxRow, ref.nrows - 1) IN
         [i \in 1..(max_row + 1 - 11) |-> FirstSheetRow(ref, 10 + i)]

(***************************************************************************)
(* extract_data.py: process_excel_file and main                            *)
(***************************************************************************)
\* pd.read_excel or process_sheet raises inside the try of lines 187-195
DataSheetRaises(sheet) ==
    ~sheet.readable \/ data_process_sheet(sheet.grid, sheet.name).pc = "raised"

\* a loop body that appends the header before the detail rows are known
DataSheetAppendHeaderFirst(acc, sheet) ==
    IF ~sheet.readable THEN acc
    ELSE LET res == data_process_sheet(sheet.grid, sheet.name) IN
         IF res.pc = "raised"
         THEN acc \o << [Sheet |-> StripSpaces(sheet.name), Type |-> "Header",
                         Number |-> 0, Description |-> "", Details |-> "",
                         Control |-> "", Conclusion |-> ""] >>
         ELSE acc \o res.header_data \o res.detail_rows

\* one pass of the loop of lines 186-195: all_data after the sheet
DataSheetBody(acc, sheet) ==
    IF DataSheetRaises(sheet) THEN acc
    ELSE LET res == data_process_sheet(sheet.grid, sheet.name) IN
         acc \o res.header_data \o res.detail_rows

(***************************************************************************)
(* extract_conclusion.py: process_excel_file                               *)
(***************************************************************************)
ConclSheetRaises(sheet) ==
    ~sheet.readable \/ concl_process_sheet(sheet.grid, sheet.name).pc = "raised"

BlankConclRecord(name) ==
    [Sheet |-> name, Type |-> "Detail", Design |-> "", Operation |-> ""]

\* one pass of the loop of lines 164-188: conclusion_data after the sheet
ConclSheetBody(acc, sheet) ==
    IF ConclSheetRaises(sheet) THEN acc
    ELSE acc \o << ConclRecord(concl_process_sheet(sheet.grid, sheet.name),
                               sheet.name) >>
             \o [i \in 1..PaddingRows(sheet.name) |-> BlankConclRecord(sheet.name)]

\* lines 139-141
ConclSkips(name) ==
    \/ name = ReplaceXlsx(name, "_conclusion")
    \/ ContainsSuffix(name, "_conclusion")
    \/ ContainsSuffix(name, "_extracted")

\* lines 170-173
DataSkips(name) == name = ReplaceXlsx(name, "_extracted")

(***************************************************************************)
(* extract_conclusion.py: analyze_and_save_conclusion.  A table cell is    *)
(* present (some) with its value v, or missing (NaN).                      *)
(***************************************************************************)
Some(x) == [some |-> TRUE, v |-> x]
MissingStr == [some |-> FALSE, v |-> ""]
MissingName == [some |-> FALSE, v |-> << >>]

\* df.replace("", np.nan) on a str value
BlankToNaN(x) == IF x = "" THEN MissingStr ELSE Some(x)

\* row i of pd.merge(first_df, conclusion_df, how='outer', left_index=True,
\* right_index=True) after replace("", np.nan)
MergedRow(first, concl, i) ==
    [No |-> IF i <= Len(first) THEN BlankToNaN(first[i].No) ELSE MissingStr,
     Description |-> IF i <= Len(first) THEN BlankToNaN(first[i].Description)
                     ELSE MissingStr,
     HDesign |-> IF i <= Len(first) THEN BlankToNaN(first[i].HDesign) ELSE MissingStr,
     HOperation |-> IF i <= Len(first) THEN BlankToNaN(first[i].HOperation)
                    ELSE MissingStr,
     Sheet |-> IF i <= Len(concl) THEN Some(concl[i].Sheet) ELSE MissingName,
     Type |-> IF i <= Len(concl) THEN BlankToNaN(concl[i].Type) ELSE MissingStr,
     Design |-> IF i <= Len(concl) THEN BlankToNaN(concl[i].Design) ELSE MissingStr,
     Operation |-> IF i <= Len(concl) THEN BlankToNaN(concl[i].Operation)
                   ELSE MissingStr]

Max(a, b) == IF a > b THEN a ELSE b

\* a merge with how='inner': only the indices both tables have
MergeInner(first, concl) ==
    [i \in 1..Min(Len(first), Len(concl)) |-> MergedRow(first, concl, i)]

Merge(first, concl) ==
    [i \in 1..Max(Len(first), Len(concl)) |-> MergedRow(first, concl, i)]

\* fillna(method='ffill'): each missing cell takes the cell above it
RECURSIVE FfillFrom(_, _)
FfillFrom(rows, i) ==
    IF i > Len(rows) THEN rows
    ELSE FfillFrom(
             [rows EXCEPT ![i] =
                 [f \in DOMAIN rows[i] |->
                     IF rows[i][f].some THEN rows[i][f] ELSE rows[i - 1][f]]],
             i + 1)

Ffill(rows) == FfillFrom(rows, 2)

\* np.where(a != b, 'N', 'Y'): a missing cell is NaN, and NaN != x holds
\* for every x, NaN included
DifferenceFlag(h, x) == IF ~h.some \/ ~x.some \/ h.v # x.v THEN "N" ELSE "Y"

\* lines 221-222
WithDifferences(row) ==
    [No |-> row.No, Description |-> row.Description, HDesign |-> row.HDesign,
     HOperation |-> row.HOperation, Sheet |-> row.Sheet, Type |-> row.Type,
     Design |-> row.Design, Operation |-> row.Operation,
     DesignDifference |-> DifferenceFlag(row.HDesign, row.Design),
     OperationDifference |-> DifferenceFlag(row.HOperation, row.Operation)]

\* lines 210-222: the table written to the output document
CombinedTable(first, concl) ==
    LET filled == Ffill(Merge(first, concl)) IN
    [i \in 1..Len(filled) |-> WithDifferences(filled[i])]

\* line 205: nothing is written when either list is empty
AnalyzeWrites(first, concl) == first # << >> /\ concl # << >>

(***************************************************************************)
(* The document specification: a working directory holding one document;   *)
(* either main takes any document of the directory, runs                   *)
(* process_excel_file on it sheet by sheet and writes its output document  *)
(* into the directory.                                                     *)
(***************************************************************************)
TailGrid(name, nc, h, tl) ==
    [nrows |-> TemplateBase(name) + Len(tl), ncols |-> nc,
     base |-> TemplateBase(name), hdrD |-> h, tail |-> tl]

NumberedRow(k) == [b |-> PyInt(k), d |-> PyStr("evidence")]
ConclusionRow == [b |-> PyStr("Conclusion"), d |-> PyStr("Effective")]

DocSheetKinds ==
    { [name |-> PE6, readable |-> TRUE,
       grid |-> TailGrid(PE6, 5, PyStr("Effective"),
                         <<NumberedRow(1), NumberedRow(2), ConclusionRow>>)],
      [name |-> PE3d, readable |-> TRUE,
       grid |-> TailGrid(PE3d, 4, NaN,
                         <<NumberedRow(1), [b |-> NaN, d |-> PyStr("Ineffective")]>>)],
      [name |-> <<"P", "E", "-", "1">>, readable |-> TRUE,
       grid |-> TailGrid(<<"P", "E", "-", "1">>, 3, NaN, <<NumberedRow(1)>>)],
      [name |-> PE8, readable |-> FALSE,
       grid |-> TailGrid(PE8, 4, NaN, << >>)] }

FilledRefRow == [no |-> PyInt(1), hd |-> PyStr("Effective"),
                 ho |-> PyStr("Effective"), guard |-> PyStr("x")]
UnguardedRefRow == [no |-> PyInt(2), hd |-> PyStr("Ineffective"),
                    ho |-> PyStr("Effective"), guard |-> NaN]
RefRowKinds == { FilledRefRow, BlankRefRow, UnguardedRefRow }

EmptyRef == [nrows |-> 0, ncols |-> 0, rows |-> << >>]

Document(name, readable, ref, sheets) ==
    [name |-> name, readable |-> readable, ref |-> ref, sheets |-> sheets,
     data_table |-> << >>, recon_table |-> << >>]

NoDoc == Document(<< >>, FALSE, EmptyRef, << >>)

PlainName == <<"report", ".xlsx">>

\* documents with a name that already carries an output suffix, an
\* unreadable document, a reference sheet of 9 columns, one of 50 rows,
\* one with an absent HOperation cell beside a present column 9
SpecialDocs ==
    LET ref3 == [nrows |-> 14, ncols |-> 10,
                 rows |-> <<FilledRefRow, FilledRefRow, FilledRefRow>>]
        pe6 == CHOOSE k \in DocSheetKinds : k.name = PE6
    IN  { Document(<<"report", "_extracted", ".xlsx">>, TRUE, ref3, <<pe6>>),
          Document(<<"report", "_conclusion", ".xlsx">>, TRUE, ref3, <<pe6>>),
          Document(PlainName, FALSE, ref3, <<pe6>>),
          Document(PlainName, TRUE, [ref3 EXCEPT !.ncols = 9], <<pe6>>),
          Document(PlainName, TRUE, [ref3 EXCEPT !.nrows = 50], <<pe6>>),
          Document(PlainName, TRUE,
                   [ref3 EXCEPT !.rows[2] = [FilledRefRow EXCEPT !.ho = NaN]],
                   <<pe6>>) }

\* a document written by to_excel: one sheet, "Combined Data"
GeneratedDoc(name, data_table, recon_table) ==
    [name |-> name, readable |-> TRUE,
     ref |-> [nrows |-> Len(data_table) + Len(recon_table),
              ncols |-> IF data_table # << >> THEN 7 ELSE 10, rows |-> << >>],
     sheets |-> << >>, data_table |-> data_table, recon_table |-> recon_table]

\* to_excel(output_file) replaces a document of that name
Save(dir, doc) == { x \in dir : x.name # doc.name } \cup { doc }

DocIdle ==
    /\ mode = "none" /\ input_file = NoDoc /\ doc_pc = "idle" /\ sheet_idx = 0
    /\ all_data = << >> /\ first_sheet_data = << >> /\ conclusion_data = << >>
    /\ output_file = << >>

DocOff == directory = {} /\ DocIdle

DocInit ==
    /\ \/ \E n \in 0..MaxRef : \E rows \in [1..n -> RefRowKinds] :
          \E k \in 0..MaxSheets : \E sheets \in [1..k -> DocSheetKinds] :
              directory = { Document(PlainName, TRUE,
                                [nrows |-> 11 + n, ncols |-> 10, rows |-> rows],
                                sheets) }
       \/ \E d \in SpecialDocs : directory = {d}
    /\ DocIdle
    /\ ScanOff
    /\ FillOff

\* extract_data.process_excel_file, lines 170-183, called by main (line 243)
DataEnter ==
    /\ doc_pc = "idle"
    /\ \E d \in directory :
          IF DataSkips(d.name) \/ ~d.readable
          THEN UNCHANGED docVars
          ELSE /\ mode' = "data"
               /\ input_file' = d
               /\ doc_pc' = "sheets"
               /\ sheet_idx' = 1
               /\ all_data' = << >>
               /\ output_file' = ReplaceXlsx(d.name, "_extracted")
               /\ UNCHANGED <<directory, first_sheet_data, conclusion_data>>
    /\ UNCHANGED <<scanVars, fillVars>>

\* one pass of the sheet loop, lines 186-195
DataSheet ==
    /\ doc_pc = "sheets" /\ mode = "data"
    /\ sheet_idx <= Len(input_file.sheets)
    /\ all_data' = DataSheetBody(all_data, input_file.sheets[sheet_idx])
    /\ sheet_idx' = sheet_idx + 1
    /\ UNCHANGED <<directory, mode, input_file, doc_pc, first_sheet_data,
                   conclusion_data, output_file, scanVars, fillVars>>

\* the return of line 197 and main, lines 245-263
DataFinish ==
    /\ doc_pc = "sheets" /\ mode = "data"
    /\ sheet_idx > Len(input_file.sheets)
    /\ directory' = IF all_data # << >>
                    THEN Save(directory,
                              GeneratedDoc(output_file, post_process_data(all_data),
                                           << >>))
                    ELSE directory
    /\ mode' = "none" /\ input_file' = NoDoc /\ doc_pc' = "idle" /\ sheet_idx' = 0
    /\ all_data' = << >> /\ output_file' = << >>
    /\ UNCHANGED <<first_sheet_data, conclusion_data, scanVars, fillVars>>

\* extract_conclusion.process_excel_file, lines 136-161, called by main
ConclEnter ==
    /\ doc_pc = "idle"
    /\ \E d \in directory :
          IF ConclSkips(d.name) \/ ~d.readable
          THEN UNCHANGED docVars
          ELSE /\ mode' = "conclusion"
               /\ input_file' = d
               /\ doc_pc' = "sheets"
               /\ sheet_idx' = 1
               /\ first_sheet_data' = IF FirstSheetRaises(d.ref) THEN << >>
                                      ELSE extract_first_sheet_data(d.ref)
               /\ conclusion_data' = << >>
               /\ output_file' = ReplaceXlsx(d.name, "_conclusion")
               /\ UNCHANGED <<directory, all_data>>
    /\ UNCHANGED <<scanVars, fillVars>>

\* one pass of the sheet loop, lines 164-188
ConclSheet ==
    /\ doc_pc = "sheets" /\ mode = "conclusion"
    /\ sheet_idx <= Len(input_file.sheets)
    /\ conclusion_data' = ConclSheetBody(conclusion_data, input_file.sheets[sheet_idx])
    /\ sheet_idx' = sheet_idx + 1
    /\ UNCHANGED <<directory, mode, input_file, doc_pc, first_sheet_data,
                   all_data, output_file, scanVars, fillVars>>

\* the return of line 190, main line 254 and analyze_and_save_conclusion
ConclFinish ==
    /\ doc_pc = "sheets" /\ mode = "conclusion"
    /\ sheet_idx > Len(input_file.sheets)
    /\ directory' = IF AnalyzeWrites(first_sheet_data, conclusion_data)
                    THEN Save(directory,
                              GeneratedDoc(output_file, << >>,
                                  CombinedTable(first_sheet_data, conclusion_data)))
                    ELSE directory
    /\ mode' = "none" /\ input_file' = NoDoc /\ doc_pc' = "idle" /\ sheet_idx' = 0
    /\ first_sheet_data' = << >> /\ conclusion_data' = << >> /\ output_file' = << >>
    /\ UNCHANGED <<all_data, scanVars, fillVars>>

DocNext ==
    DataEnter \/ DataSheet \/ DataFinish \/ ConclEnter \/ ConclSheet \/ ConclFinish

SpecDoc == DocInit /\ [][DocNext]_vars

(***************************************************************************)
(* Properties of the document pipelines.                                   *)
(***************************************************************************)
ConclusionOutputs == { d \in directory : d.recon_table # << >> }

\* C4: in every row of every table analyze_and_save_conclusion writes,
\* 'Design Difference' is 'Y' exactly when HDesign equals Design and
\* 'Operation Difference' is 'Y' exactly when HOperation equals Operation,
\* two cells that are both still missing after the fill counting as equal.
C4_PolarityEveryRow ==
    \A d \in ConclusionOutputs : \A i \in 1..Len(d.recon_table) :
        LET row == d.recon_table[i] IN
        /\ row.DesignDifference = IF row.HDesign = row.Design THEN "Y" ELSE "N"
        /\ row.OperationDifference =
               IF row.HOperation = row.Operation THEN "Y" ELSE "N"

\* the document of the end-to-end case: reference rows 11..13 with No,
\* Description, HDesign and HOperation present, and one detail sheet PE-6
\* with markers at rows 16 and 17 and a non-numeric row 18 with text
EndToEndDoc(d) ==
    /\ d.name = PlainName /\ d.readable
    /\ d.ref.nrows = 14 /\ Len(d.ref.rows) = 3
    /\ \A i \in 1..3 : /\ d.ref.rows[i].no.t # "nan"
                       /\ d.ref.rows[i].hd.t # "nan"
                       /\ d.ref.rows[i].ho.t # "nan"
    /\ Len(d.sheets) = 1
    /\ d.sheets[1].name = PE6 /\ d.sheets[1].readable
    /\ d.sheets[1].grid.nrows = 19 /\ d.sheets[1].grid.ncols >= 4
    /\ d.sheets[1].grid.tail[1].b.t = "int"
    /\ d.sheets[1].grid.tail[2].b.t = "int"
    /\ d.sheets[1].grid.tail[3].b.t = "str"
    /\ d.sheets[1].grid.tail[3].d.t = "str"

FlagsSet(table) ==
    \A i \in 1..Len(table) : /\ table[i].DesignDifference \in {"Y", "N"}
                             /\ table[i].OperationDifference \in {"Y", "N"}

EndToEndOutputRows(n) ==
    (\E d \in directory : EndToEndDoc(d)) =>
        \A out \in ConclusionOutputs :
            Len(out.recon_table) = n /\ FlagsSet(out.recon_table)

\* C5 as stated: the end-to-end document gives an output of exactly 2
\* reconciliation rows, each with both difference columns 'Y' or 'N'.
C5_TwoRows == EndToEndOutputRows(2)

EndToEndFinish ==
    (mode = "conclusion" /\ doc_pc = "sheets" /\ doc_pc' = "idle"
         /\ EndToEndDoc(input_file)) =>
        IF input_file.ref.ncols >= 10
        THEN \E out \in directory' :
                 /\ out.name = <<"report", "_conclusion", ".xlsx">>
                 /\ Len(out.recon_table) = 4
                 /\ FlagsSet(out.recon_table)
        ELSE directory' = directory

\* C5 amended: the end-to-end document gives, when its reference sheet has
\* the column 9 that the HOperation guard reads, an output of exactly 4
\* reconciliation rows (the PE-6 record and its 3 padding rows, merged by
\* position with the 3 reference rows), each with both difference columns
\* 'Y' or 'N'; with a reference sheet of fewer than 10 columns no output is
\* written.
C5_FourRows ==
    /\ [](EndToEndOutputRows(4))
    /\ [][EndToEndFinish]_vars

C5_Witness ==
    /\ \E d \in directory : EndToEndDoc(d) /\ d.ref.ncols = 10
    /\ \E out \in ConclusionOutputs :
           /\ out.name = <<"report", "_conclusion", ".xlsx">>
           /\ Len(out.recon_table) = 4
           /\ out.recon_table[1].DesignDifference = "Y"

CarriesOutputSuffix(name) ==
    ContainsSuffix(name, "_extracted") \/ ContainsSuffix(name, "_conclusion")

\* C6: in both modes process_excel_file skips every document whose name
\* carries an output suffix: it never gets to the sheet loop of such a
\* document and computes no output name for it.
C6_OutputsNeverProcessed ==
    CarriesOutputSuffix(input_file.name) =>
        (doc_pc = "idle" /\ output_file = << >>)

\* the sheets of DocSheetKinds whose processing raises: the unreadable one,
\* and the one whose grid lacks column 3 under an existing header row
SheetFails(sheet) == ~sheet.readable \/ sheet.grid.ncols < 4

FailingSheetNames == { k.name : k \in { x \in DocSheetKinds : SheetFails(x) } }

IsPrefix(a, b) == Len(a) <= Len(b) /\ SubSeq(b, 1, Len(a)) = a

SheetStepIsolated ==
    (doc_pc = "sheets" /\ sheet_idx <= Len(input_file.sheets)) =>
        LET sheet == input_file.sheets[sheet_idx] IN
        /\ doc_pc' = "sheets" /\ input_file' = input_file
        /\ sheet_idx' = sheet_idx + 1
        /\ IsPrefix(all_data, all_data')
        /\ IsPrefix(conclusion_data, conclusion_data')
        /\ SheetFails(sheet) =>
               all_data' = all_data /\ conclusion_data' = conclusion_data
        /\ ~SheetFails(sheet) =>
               /\ mode = "data" =>
                      /\ Len(all_data') > Len(all_data)
                      /\ all_data'[Len(all_data) + 1].Type = "Header"
                      /\ all_data'[Len(all_data) + 1].Sheet = sheet.name
               /\ mode = "conclusion" =>
                      /\ Len(conclusion_data') > Len(conclusion_data)
                      /\ conclusion_data'[Len(conclusion_data) + 1].Sheet = sheet.name

\* C8: a sheet whose processing raises adds no record to the accumulated
\* output and leaves the records of earlier sheets as they were, and the
\* loop goes on to the next sheet in file order; no record of a failing
\* sheet is ever accumulated.
C8_SheetFailureIsolated ==
    /\ [](/\ \A i \in 1..Len(all_data) : all_data[i].Sheet \notin FailingSheetNames
          /\ \A i \in 1..Len(conclusion_data) :
                 conclusion_data[i].Sheet \notin FailingSheetNames)
    /\ [][SheetStepIsolated]_vars

C8_Witness ==
    /\ mode = "data" /\ doc_pc = "sheets" /\ sheet_idx = 3
    /\ ~SheetFails(input_file.sheets[1])
    /\ SheetFails(input_file.sheets[2])
    /\ all_data # << >>
    /\ \A i \in 1..Len(all_data) : all_data[i].Sheet = input_file.sheets[1].name

(***************************************************************************)
(* The fill specification: a record list as process_excel_file builds it   *)
(* (a header record first) is handed to post_process_data.                 *)
(***************************************************************************)
FillRecord(type, details, control, conclusion) ==
    [Sheet |-> PE6, Type |-> type, Number |-> IF type = "Header" THEN 0 ELSE 1,
     Description |-> "", Details |-> details,
     Control |-> control, Conclusion |-> conclusion]

\* the record types of a list of n records: one sheet, or a second sheet
\* whose header is the third record
TypeAt(two_sheets, i) ==
    IF i = 1 \/ (two_sheets /\ i = 3) THEN "Header" ELSE "Detail"

FillFields == [Details : {"", "A", "B"}, Control : {"", "X"}, Conclusion : {"", "Y"}]

FillInput(n, f, two) ==
    [i \in 1..n |->
        FillRecord(TypeAt(two, i), f[i].Details, f[i].Control, f[i].Conclusion)]

FillInit ==
    /\ \E n \in 0..MaxRecs : \E f \in [1..n -> FillFields] : \E two \in BOOLEAN :
           records_in = FillInput(n, f, two)
    /\ records = records_in
    /\ fill_pc = "extracted"
    /\ ScanOff
    /\ DocOff

PostProcess ==
    /\ fill_pc = "extracted"
    /\ records' = post_process_data(records)
    /\ fill_pc' = "processed"
    /\ UNCHANGED <<records_in, scanVars, docVars>>

FillNext == PostProcess

SpecFill == FillInit /\ [][FillNext]_vars

\* the nearest position after i whose field is non-empty in the input, or 0
NearestFilledAfter(field, i) ==
    LET filled == { j \in (i + 1)..Len(records_in) : records_in[j][field] # "" }
    IN  IF filled = {} THEN 0
        ELSE CHOOSE j \in filled : \A q \in filled : j <= q

BackFilled(field) ==
    \A i \in 1..Len(records_in) :
        IF records_in[i][field] # ""
        THEN records[i][field] = records_in[i][field]
        ELSE LET j == NearestFilledAfter(field, i) IN
             records[i][field] = IF j = 0 THEN "" ELSE records_in[j][field]

ControlColumn(data) == [i \in 1..Len(data) |-> data[i].Control]
DetailsColumn(data) == [i \in 1..Len(data) |-> data[i].Details]

\* C3: after post_process_data every record whose control (conclusion) was
\* empty holds the control (conclusion) of the nearest following record
\* whose field is non-empty, for every record of the list; control
\* ["", "", "X"] becomes ["X", "X", "X"].
C3_BackwardFillEveryRecord ==
    fill_pc = "processed" =>
        /\ BackFilled("Control")
        /\ BackFilled("Conclusion")
        /\ ControlColumn(records_in) = <<"", "", "X">>
               => ControlColumn(records) = <<"X", "X", "X">>

\* the details a forward fill gives position i: its own when non-empty,
\* else those of the nearest earlier record that has some, else ''
RECURSIVE FilledDetails(_)
FilledDetails(i) ==
    IF records_in[i].Details # "" \/ i = 1 THEN records_in[i].Details
    ELSE FilledDetails(i - 1)

\* C9: after post_process_data every record from the second on whose
\* details was empty holds the filled details of the record before it,
\* whatever the record types; a non-empty details is unchanged; details
\* ["A", "", "", "B"] becomes ["A", "A", "A", "B"].
C9_ForwardFill ==
    fill_pc = "processed" =>
        /\ Len(records) = Len(records_in)
        /\ \A i \in 1..Len(records_in) :
              /\ records_in[i].Details # "" =>
                     records[i].Details = records_in[i].Details
              /\ (records_in[i].Details = "" /\ i > 1) =>
                     /\ records[i].Details = records[i - 1].Details
                     /\ records[i].Details = FilledDetails(i)
              /\ i = 1 => records[i].Details = records_in[i].Details
        /\ DetailsColumn(records_in) = <<"A", "", "", "B">>
               => DetailsColumn(records) = <<"A", "A", "A", "B">>

C9_Witness ==
    /\ fill_pc = "processed"
    /\ DetailsColumn(records_in) = <<"A", "", "", "B">>
    /\ DetailsColumn(records) = <<"A", "A", "A", "B">>
    /\ records[3].Type = "Header"

(***************************************************************************)
(* The scan specification: one sheet, drawn from the bounded grids, is     *)
(* scanned row by row by extract_data.process_sheet and then by            *)
(* extract_conclusion.process_sheet.                                       *)
(***************************************************************************)
ScanInit ==
    /\ sheet_name \in SheetNames
    /\ df \in GridsFor(sheet_name)
    /\ dscan = DataIdle
    /\ cscan = ConclIdle
    /\ FillOff
    /\ DocOff

DataHeader ==
    /\ dscan.pc = "start"
    /\ dscan' = DataBegin(df, sheet_name)
    /\ UNCHANGED <<sheet_name, df, cscan, fillVars, docVars>>

DataRow ==
    /\ dscan.pc = "scan"
    /\ dscan' = DataIter(dscan, df, StripSpaces(sheet_name))
    /\ UNCHANGED <<sheet_name, df, cscan, fillVars, docVars>>

ConclHeader ==
    /\ dscan.pc \in {"done", "raised"}
    /\ cscan.pc = "start"
    /\ cscan' = ConclBegin(df, sheet_name)
    /\ UNCHANGED <<sheet_name, df, dscan, fillVars, docVars>>

ConclRow ==
    /\ cscan.pc = "scan"
    /\ cscan' = ConclIter(cscan, df)
    /\ UNCHANGED <<sheet_name, df, dscan, fillVars, docVars>>

ScanNext == DataHeader \/ DataRow \/ ConclHeader \/ ConclRow

SpecScan == ScanInit /\ [][ScanNext]_vars


(***************************************************************************)
(* Properties of the scan.  The predicates below read the grid directly    *)
(* and do not use the scanners' own tests.                                 *)
(***************************************************************************)
Marker(r) == Cell(df, r, 1)
Integral(v) == v.t = "int" \/ (v.t = "float" /\ v.n % 2 = 0)
IsInteger(v, i) == (v.t = "int" /\ v.n = i) \/ (v.t = "float" /\ v.n = 2 * i)
Conforming(r) == r < df.nrows /\ Integral(Marker(r))
NonConforming(r) == r < df.nrows /\ ~Integral(Marker(r))

\* the marker column holds 1..k from the start row on, then a non-numeric row
OneToKThenNonNumeric(k) ==
    /\ dscan.start_row + k < df.nrows
    /\ \A i \in 1..k : IsInteger(Marker(dscan.start_row + i - 1), i)
    /\ ~Integral(Marker(dscan.start_row + k))

NumberedOneTo(k) ==
    /\ Len(dscan.detail_rows) = k
    /\ \A i \in 1..k : /\ dscan.detail_rows[i].Number = i
                       /\ dscan.detail_rows[i].Type = "Detail"

TailMarkers == [i \in 1..Len(df.tail) |-> df.tail[i].b]

\* the first row from the start row on that is non-conforming and whose next
\* row is non-conforming or missing
IsFirstStopRow(start, r) ==
    /\ NonConforming(r) /\ ~Conforming(r + 1)
    /\ \A q \in start..(r - 1) : ~(NonConforming(q) /\ ~Conforming(q + 1))

DataScanStep ==
    dscan.pc = "scan" =>
        LET r == dscan.current_row IN
        /\ (NonConforming(r) /\ Conforming(r + 1)) =>
               /\ dscan'.pc = "scan"
               /\ dscan'.current_row = r + 1
               /\ dscan'.detail_rows = dscan.detail_rows
        /\ (NonConforming(r) /\ ~Conforming(r + 1)) =>
               /\ dscan'.pc = "done" /\ dscan'.stop = "break"
               /\ dscan'.current_row = r
               /\ IsFirstStopRow(dscan.start_row, r)
        /\ Conforming(r) =>
               /\ dscan'.pc = "scan"
               /\ dscan'.current_row = r + 1
               /\ Len(dscan'.detail_rows) = Len(dscan.detail_rows) + 1

ConclScanStep ==
    cscan.pc = "scan" =>
        LET r == cscan.current_row IN
        /\ (NonConforming(r) /\ Conforming(r + 1)) =>
               /\ cscan'.pc = "scan"
               /\ cscan'.current_row = r + 1
        /\ (NonConforming(r) /\ ~Conforming(r + 1)) =>
               /\ cscan'.pc = "done" /\ cscan'.stop = "break"
               /\ cscan'.current_row = r
               /\ IsFirstStopRow(cscan.start_row, r)
        /\ Conforming(r) =>
               /\ cscan'.pc = "scan"
               /\ cscan'.current_row = r + 1

\* C2: in both scanners a non-conforming row whose next row has an integral
\* numeric marker is skipped without a record and without ending the scan;
\* the scan stops at the first non-conforming row whose next row is
\* non-conforming or missing; markers [1, blank, 2] give two detail records.
C2_LookaheadTolerance ==
    /\ [](/\ dscan.pc = "done"
          /\ dscan.start_row = df.base
          /\ TailMarkers = <<PyInt(1), NaN, PyInt(2)>>
          => Len(dscan.detail_rows) = 2)
    /\ [][DataScanStep /\ ConclScanStep]_vars

C2_Witness ==
    /\ dscan.pc = "done" /\ cscan.pc = "done"
    /\ dscan.start_row = df.base
    /\ TailMarkers = <<PyInt(1), NaN, PyInt(2)>>
    /\ Len(dscan.detail_rows) = 2
    /\ cscan.current_row = df.nrows

\* the rule table of the layout: d8 row, start row and padding rows
TableVariant(name) ==
    IF name = PE6 THEN [d8row |-> 9, start_row |-> 16, padding |-> 3]
    ELSE IF name \in { PE3d, PE8 } THEN [d8row |-> 7, start_row |-> 13, padding |-> 1]
    ELSE [d8row |-> 6, start_row |-> 13, padding |-> 0]

\* C7: for every sheet identifier both modes resolve the variant the rule
\* table gives for the identifier with its spaces stripped: the same d8 row,
\* the same start row, and the padding rows of that variant.
C7_SameVariantInBothModes ==
    (dscan.pc \in {"scan", "done"} /\ cscan.pc \in {"scan", "done"}) =>
        LET want == TableVariant(StripSpaces(sheet_name)) IN
        /\ dscan.start_row = want.start_row
        /\ DataLayout(sheet_name).hrow2 = want.d8row
        /\ cscan.start_row = want.start_row
        /\ ConclLayout(sheet_name).d8row = want.d8row
        /\ PaddingRows(sheet_name) = want.padding

AllUnset(rows) ==
    \A i \in 1..Len(rows) : rows[i].Control = "" /\ rows[i].Conclusion = ""

DataTerminalStep ==
    (dscan.pc = "scan" /\ dscan'.pc = "done") =>
        LET r == dscan.current_row
            old == dscan.detail_rows
            new == dscan'.detail_rows
        IN  /\ dscan'.header_data = dscan.header_data
            /\ Len(new) = Len(old)
            /\ \A i \in 1..(Len(old) - 1) : new[i] = old[i]
            /\ dscan'.stop = "break" =>
                   /\ NonConforming(r)
                   /\ old # << >> =>
                          new[Len(old)] =
                              [old[Len(old)] EXCEPT
                                  !.Control = IF Marker(r).t = "nan" THEN ""
                                              ELSE str(Marker(r)),
                                  !.Conclusion = IF Cell(df, r, 3).t = "nan" THEN ""
                                                 ELSE str(Cell(df, r, 3))]
            /\ dscan'.stop = "end" => (r >= df.nrows /\ new = old)

\* C10: while the scan runs no detail record carries control or conclusion;
\* a scan that stops at a non-conforming row r writes str(cell(r,1)) and
\* str(cell(r,3)) ('' when absent) onto the last detail record only, leaves
\* the earlier records and the header as they were, and discards the values
\* when there is no detail record; a scan that runs out of rows sets nothing.
C10_TerminalAttachment ==
    /\ [](dscan.pc = "scan" => AllUnset(dscan.detail_rows))
    /\ [](dscan.pc = "done" /\ dscan.stop = "end" => AllUnset(dscan.detail_rows))
    /\ [](dscan.pc = "done" /\ df.nrows <= dscan.start_row
            => dscan.detail_rows = << >> /\ dscan.stop = "end")
    /\ [][DataTerminalStep]_vars

C10_Witness ==
    /\ dscan.pc = "done" /\ dscan.stop = "break"
    /\ Len(dscan.detail_rows) >= 2
    /\ dscan.detail_rows[Len(dscan.detail_rows)].Control = "Conclusion"
    /\ dscan.detail_rows[Len(dscan.detail_rows)].Conclusion = "Effective"
    /\ dscan.detail_rows[1].Control = ""

NoSpaces(name) == \A i \in 1..Len(name) : name[i] # " "

\* C11: for a sheet identifier without spaces, two scans that both return
\* stopped at the same row for the same reason; then the header record's
\* Conclusion is the conclusion-mode Design, and when a detail record was
\* emitted the Conclusion of the last one is the conclusion-mode Operation.
\* The conclusion scan raises only where the data scan raises, and where
\* only the data scan raises the conclusion scan ran no pass of its loop.
C11_ScannersAgree ==
    (NoSpaces(sheet_name) /\ dscan.pc \in {"done", "raised"}
         /\ cscan.pc \in {"done", "raised"}) =>
        /\ (dscan.pc = "done" /\ cscan.pc = "done") =>
               /\ cscan.start_row = dscan.start_row
               /\ cscan.current_row = dscan.current_row
               /\ cscan.stop = dscan.stop
               /\ dscan.header_data[1].Conclusion = cscan.design_value
               /\ dscan.detail_rows # << >> =>
                      dscan.detail_rows[Len(dscan.detail_rows)].Conclusion
                          = cscan.operation_value
        /\ cscan.pc = "raised" => dscan.pc = "raised"
        /\ (dscan.pc = "raised" /\ cscan.pc = "done") =>
               /\ cscan.stop = "end"
               /\ cscan.current_row = cscan.start_row
               /\ df.nrows <= cscan.start_row

C11_Witness ==
    /\ NoSpaces(sheet_name) /\ sheet_name = PE6
    /\ dscan.pc = "done" /\ cscan.pc = "done"
    /\ dscan.stop = "break" /\ cscan.current_row = dscan.current_row
    /\ Len(dscan.detail_rows) >= 2
    /\ cscan.operation_value = "Ineffective"
    /\ dscan.detail_rows[Len(dscan.detail_rows)].Conclusion = "Ineffective"
    /\ cscan.design_value = "Effective"
    /\ dscan.header_data[1].Conclusion = "Effective"

====
